---------------------------- MODULE Spec2Model ----------------------------
(***************************************************************************)
(* Model of the JSON validator action (src/src/main.ts): file discovery,   *)
(* schema resolution, schema loading and compilation, per-document         *)
(* validation and the aggregation of the results into outputs and status.  *)
(*                                                                         *)
(* Text is modelled as a sequence of tokens: the tokens "/" and "." stand  *)
(* for these characters, every other token is a maximal run of characters  *)
(* that holds neither.  "./user.schema.json" is                            *)
(*   << ".", "/", "user", ".", "schema", ".", "json" >>.                   *)
(* A prefix test against "http://" and a split at "/" are exact on this    *)
(* representation.                                                         *)
(***************************************************************************)
EXTENDS Integers, Sequences, FiniteSets, TLC

S == "/"
D == "."

Null == [t |-> "null"]

(***************************************************************************)
(* Strings and the path library (node:path, POSIX flavour)                 *)
(***************************************************************************)

\* String.prototype.startsWith
StartsWith(s, prefix) ==
    /\ Len(s) >= Len(prefix)
    /\ SubSeq(s, 1, Len(prefix)) = prefix

\* String.prototype.endsWith
EndsWith(s, suffix) ==
    /\ Len(s) >= Len(suffix)
    /\ SubSeq(s, Len(s) - Len(suffix) + 1, Len(s)) = suffix

\* the segments of a text between its "/" characters (empty ones included)
RECURSIVE SplitFrom(_, _, _)
SplitFrom(s, i, cur) ==
    IF i > Len(s) THEN << cur >>
    ELSE IF s[i] = S THEN << cur >> \o SplitFrom(s, i + 1, << >>)
    ELSE SplitFrom(s, i + 1, Append(cur, s[i]))

Segments(s) == SplitFrom(s, 1, << >>)

\* segs joined with "/"
RECURSIVE JoinSegs(_)
JoinSegs(segs) ==
    IF Len(segs) = 0 THEN << >>
    ELSE IF Len(segs) = 1 THEN segs[1]
    ELSE segs[1] \o << S >> \o JoinSegs(Tail(segs))

DotDot == << D, D >>

\* node:path normalizeString: drops empty and "." segments, lets ".." remove
\* the segment before it; above the root ".." is kept only if allowAboveRoot
RECURSIVE NormalizeSegs(_, _, _)
NormalizeSegs(segs, acc, allowAboveRoot) ==
    IF Len(segs) = 0 THEN acc
    ELSE LET seg == Head(segs)
             rest == Tail(segs)
         IN  IF seg = << >> \/ seg = << D >>
               THEN NormalizeSegs(rest, acc, allowAboveRoot)
             ELSE IF seg = DotDot
               THEN IF Len(acc) > 0 /\ acc[Len(acc)] # DotDot
                      THEN NormalizeSegs(rest, SubSeq(acc, 1, Len(acc) - 1), allowAboveRoot)
                    ELSE IF allowAboveRoot
                      THEN NormalizeSegs(rest, Append(acc, DotDot), allowAboveRoot)
                    ELSE NormalizeSegs(rest, acc, allowAboveRoot)
             ELSE NormalizeSegs(rest, Append(acc, seg), allowAboveRoot)

NormalizeString(path, allowAboveRoot) ==
    JoinSegs(NormalizeSegs(Segments(path), << >>, allowAboveRoot))

\* path.isAbsolute
IsAbsolute(path) == Len(path) > 0 /\ path[1] = S

\* path.resolve(...args) in a process whose working directory is workdir:
\* the arguments are taken from the right until an absolute one is met, the
\* working directory is used when none is, and the result is normalised
RECURSIVE ResolveFrom(_, _, _, _)
ResolveFrom(args, i, resolved, workdir) ==
    LET path == IF i >= 1 THEN args[i] ELSE workdir
    IN  IF i < 0 THEN resolved
        ELSE IF Len(path) = 0 THEN ResolveFrom(args, i - 1, resolved, workdir)
        ELSE IF IsAbsolute(path) THEN path \o << S >> \o resolved
        ELSE ResolveFrom(args, i - 1, path \o << S >> \o resolved, workdir)

PathResolve(args, workdir) ==
    LET resolved == ResolveFrom(args, Len(args), << >>, workdir)
        normal == NormalizeString(resolved, ~IsAbsolute(resolved))
    IN  IF IsAbsolute(resolved) THEN << S >> \o normal
        ELSE IF Len(normal) > 0 THEN normal
        ELSE << D >>

\* index of the last "/" of path that ends its directory part, 0 if none
RECURSIVE DirnameEnd(_, _, _)
DirnameEnd(path, i, matchedSlash) ==
    IF i < 2 THEN 0
    ELSE IF path[i] = S
      THEN IF ~matchedSlash THEN i ELSE DirnameEnd(path, i - 1, matchedSlash)
    ELSE DirnameEnd(path, i - 1, FALSE)

\* path.dirname
PathDirname(path) ==
    IF Len(path) = 0 THEN << D >>
    ELSE LET hasRoot == path[1] = S
             end == DirnameEnd(path, Len(path), TRUE)
         IN  IF end = 0 THEN (IF hasRoot THEN << S >> ELSE << D >>)
             ELSE IF hasRoot /\ end = 2 THEN << S, S >>
             ELSE SubSeq(path, 1, end - 1)

\* the longest common prefix of two sequences of segments
RECURSIVE CommonLen(_, _)
CommonLen(a, b) ==
    IF Len(a) = 0 \/ Len(b) = 0 \/ Head(a) # Head(b) THEN 0
    ELSE 1 + CommonLen(Tail(a), Tail(b))

\* path.relative(from, to)
PathRelative(from, to, workdir) ==
    LET f == Tail(Segments(PathResolve(<< from >>, workdir)))
        t == Tail(Segments(PathResolve(<< to >>, workdir)))
        fs == IF f = << << >> >> THEN << >> ELSE f
        ts == IF t = << << >> >> THEN << >> ELSE t
        c == CommonLen(fs, ts)
        ups == [i \in 1 .. (Len(fs) - c) |-> DotDot]
    IN  JoinSegs(ups \o SubSeq(ts, c + 1, Len(ts)))

\* path.join(a, b)
PathJoin(a, b) ==
    LET joined == IF Len(a) = 0 THEN b
                  ELSE IF Len(b) = 0 THEN a
                  ELSE a \o << S >> \o b
        normal == NormalizeString(joined, ~IsAbsolute(joined))
        trailing == Len(joined) > 0 /\ joined[Len(joined)] = S
        body == IF Len(normal) = 0 THEN (IF IsAbsolute(joined) THEN << >> ELSE << D >>)
                ELSE IF trailing THEN normal \o << S >>
                ELSE normal
    IN  IF Len(joined) = 0 THEN << D >>
        ELSE IF IsAbsolute(joined) THEN << S >> \o body
        ELSE body


(***************************************************************************)
(* JSON texts.  A text is given by whether it is well formed and by the    *)
(* value it denotes: the kind of its root, its "$schema" member (absent,   *)
(* a number, or a string), its "name" and "price" members, and, for a      *)
(* text used as a schema, whether ajv can compile it and the keywords it   *)
(* states.  A malformed text still shows the members it was meant to have. *)
(***************************************************************************)

NoMember == [t |-> "absent", s |-> << >>]
NumberMember == [t |-> "number", s |-> << >>]
StringMember(str) == [t |-> "string", s |-> str]

Text(syntax, root, schema, name, price) ==
    [syntax |-> syntax, root |-> root, schema |-> schema, name |-> name,
     price |-> price, compilable |-> TRUE, rules |-> << >>]

SchemaText(syntax, compilable, rules) ==
    [syntax |-> syntax, root |-> "object", schema |-> NoMember, name |-> FALSE,
     price |-> 0, compilable |-> compilable, rules |-> rules]

\* the outcome of a call: a value, or the message of the Error thrown
Return(v) == [ok |-> TRUE, val |-> v, err |-> << >>]
Throw(msg) == [ok |-> FALSE, val |-> Null, err |-> msg]

SyntaxErrorMessage == << "Unexpected token in JSON" >>

\* JSON.parse
JSONParse(text) ==
    IF text.syntax = "ok"
      THEN Return([root |-> text.root, schema |-> text.schema, name |-> text.name,
                   price |-> text.price, compilable |-> text.compilable,
                   rules |-> text.rules])
    ELSE Throw(SyntaxErrorMessage)

(***************************************************************************)
(* The file system: a function from absolute paths to entries.             *)
(***************************************************************************)

Absent == [kind |-> "absent", readable |-> FALSE, text |-> Null]
Dir == [kind |-> "dir", readable |-> TRUE, text |-> Null]
File(text) == [kind |-> "file", readable |-> TRUE, text |-> text]
Unreadable(text) == [kind |-> "file", readable |-> FALSE, text |-> text]

Entry(fsys, abs) == IF abs \in DOMAIN fsys THEN fsys[abs] ELSE Absent

\* fs.existsSync
ExistsSync(fsys, workdir, path) ==
    Entry(fsys, PathResolve(<< path >>, workdir)).kind # "absent"

\* fs.readFileSync(path, 'utf-8')
ReadFileSync(fsys, workdir, path) ==
    LET e == Entry(fsys, PathResolve(<< path >>, workdir))
    IN  IF e.kind = "absent"
          THEN Throw(<< "ENOENT: no such file or directory, open '" >> \o path \o << "'" >>)
        ELSE IF e.kind = "dir"
          THEN Throw(<< "EISDIR: illegal operation on a directory, read" >>)
        ELSE IF ~e.readable
          THEN Throw(<< "EACCES: permission denied, open '" >> \o path \o << "'" >>)
        ELSE Return(e.text)

(***************************************************************************)
(* The functions of src/src/main.ts                                        *)
(***************************************************************************)

\* the patterns fast-glob is told to ignore
DefaultIgnore ==
    << << "**", S, "node_modules", S, "**" >>,
       << "**", S, "dist", S, "**" >>,
       << "**", S, "lib", S, "**" >>,
       << "**", S, D, "git", S, "**" >> >>

\* a pattern **/<name>/** matches a relative path that has a directory <name>
IgnoreMatches(pattern, relSegs) ==
    LET parts == Segments(pattern)
    IN  /\ Len(parts) = 3
        /\ parts[1] = << "**" >>
        /\ parts[3] = << "**" >>
        /\ \E i \in 1 .. (Len(relSegs) - 1) : relSegs[i] = parts[2]

\* the pattern **/*.json (fast-glob's default dot: false): a file name that
\* ends in .json, at any depth, no segment of the path starting with a dot
GlobMatches(relSegs) ==
    /\ Len(relSegs) >= 1
    /\ \A i \in 1 .. Len(relSegs) : Len(relSegs[i]) > 0 /\ relSegs[i][1] # D
    /\ EndsWith(relSegs[Len(relSegs)], << D, "json" >>)

\* fg('**/*.json', {cwd: searchPath, absolute: true, ignore: [...]}) over the
\* files of fsys, which fast-glob meets in the order of listing
Glob(fsys, listing, searchPath, ignore) ==
    LET under(p) == StartsWith(p, searchPath \o << S >>)
        rel(p) == Segments(SubSeq(p, Len(searchPath) + 2, Len(p)))
        found(p) ==
            /\ Entry(fsys, p).kind = "file"
            /\ under(p)
            /\ GlobMatches(rel(p))
            /\ \A k \in 1 .. Len(ignore) : ~IgnoreMatches(ignore[k], rel(p))
    IN  SelectSeq(listing, found)

\* findJsonFiles searching the working directory, whatever the folder
findJsonFilesInCwd(fsys, listing, workdir, folder) ==
    Glob(fsys, listing, workdir, DefaultIgnore)

findJsonFiles(fsys, listing, workdir, folder) ==
    LET searchPath == PathJoin(workdir, folder)
    IN  Glob(fsys, listing, searchPath, DefaultIgnore)

HttpsPrefixCopied == << "http:", S, S >>

\* schemaRef.startsWith('http://') || schemaRef.startsWith('https://')
HttpPrefix == << "http:", S, S >>
HttpsPrefix == << "https:", S, S >>

\* data && typeof data === 'object' && '$schema' in data
\*      && typeof data.$schema === 'string'
\* (null is falsy, an array is an object that has no such key)
HasStringSchema(data) ==
    /\ data.root # "null"
    /\ data.root \in {"object", "array"}
    /\ data.root = "object" /\ data.schema.t # "absent"
    /\ data.schema.t = "string"

SchemaDirCwd(filePath) == << D >>
SchemaDirFile(filePath) == filePath

\* const dir = path.dirname(filePath)
SchemaDir(filePath) == PathDirname(filePath)

\* extractSchemaFromJson(content, filePath): the path of the schema, or Null
extractSchemaFromJson(content, filePath, workdir) ==
    LET parsed == JSONParse(content)
    IN  IF ~parsed.ok THEN Null
        ELSE IF HasStringSchema(parsed.val)
          THEN LET schemaRef == parsed.val.schema.s
               IN  IF StartsWith(schemaRef, HttpPrefix) \/ StartsWith(schemaRef, HttpsPrefix)
                     THEN Null
                   ELSE LET dir == SchemaDir(filePath)
                        IN  PathResolve(<< dir, schemaRef >>, workdir)
        ELSE Null

Valid(filePath) == [valid |-> TRUE, file |-> filePath, error |-> Null]
Invalid(filePath, message) == [valid |-> FALSE, file |-> filePath, error |-> message]

\* validateJsonSyntax(filePath)
\* validateJsonSyntax without the JSON.parse of line 60
validateJsonSyntaxUnparsed(fsys, workdir, filePath) ==
    LET content == ReadFileSync(fsys, workdir, filePath)
    IN  IF ~content.ok THEN Invalid(filePath, content.err)
        ELSE Valid(filePath)

validateJsonSyntax(fsys, workdir, filePath) ==
    LET content == ReadFileSync(fsys, workdir, filePath)
        parsed == IF content.ok THEN JSONParse(content.val) ELSE content
    IN  IF ~content.ok THEN Invalid(filePath, content.err)
        ELSE IF ~parsed.ok THEN Invalid(filePath, parsed.err)
        ELSE Valid(filePath)

\* `${error}` of an Error with this message
ErrorToString(err) == << "Error: " >> \o err
SyntaxErrorToString(err) == << "SyntaxError: " >> \o err

loadSchemaLenient(fsys, workdir, schemaPath) ==
    LET schemaContent == ReadFileSync(fsys, workdir, schemaPath)
        parsed == IF schemaContent.ok THEN JSONParse(schemaContent.val) ELSE schemaContent
    IN  IF parsed.ok THEN parsed
        ELSE JSONParse(SchemaText("ok", TRUE, << >>))

\* loadSchema(schemaPath): the parsed schema, or the Error thrown
loadSchema(fsys, workdir, schemaPath) ==
    LET schemaContent == ReadFileSync(fsys, workdir, schemaPath)
        parsed == IF schemaContent.ok THEN JSONParse(schemaContent.val) ELSE schemaContent
        failed(cause) ==
            Throw(<< "Failed to load schema from " >> \o schemaPath \o << ": " >> \o cause)
    IN  IF ~schemaContent.ok THEN failed(ErrorToString(schemaContent.err))
        ELSE IF ~parsed.ok THEN failed(SyntaxErrorToString(parsed.err))
        ELSE parsed

\* a compile that gives a validate function for whatever it is handed
CompileUnchecked(schema, from) ==
    Return([t |-> "validator", from |-> from, rules |-> schema.rules])

\* new Ajv({allErrors: true}); addFormats(ajv); ajv.compile(schema): the
\* validate function, which remembers the schema file it was compiled from
Compile(schema, from) ==
    IF schema.root = "object" /\ schema.compilable
      THEN Return([t |-> "validator", from |-> from, rules |-> schema.rules])
    ELSE Throw(<< "schema is invalid" >>)

\* what one keyword of a schema reports about data: a sequence of at most
\* one error object {instancePath, message}
RuleErrors(rule, data) ==
    IF rule = "type" /\ data.root # "object"
      THEN << [instancePath |-> << >>, message |-> << "must be object" >>] >>
    ELSE IF rule = "required" /\ data.root = "object" /\ ~data.name
      THEN << [instancePath |-> << >>,
               message |-> << "must have required property 'name'" >>] >>
    ELSE IF rule = "minimum" /\ data.root = "object" /\ data.price < 0
      THEN << [instancePath |-> << S, "price" >>, message |-> << "must be >= 0" >>] >>
    ELSE << >>

\* validate(data) of an Ajv built without allErrors: validation stops at the
\* first keyword that fails
RECURSIVE ValidateErrorsFirst(_, _)
ValidateErrorsFirst(rules, data) ==
    IF Len(rules) = 0 THEN << >>
    ELSE IF RuleErrors(Head(rules), data) # << >> THEN RuleErrors(Head(rules), data)
    ELSE ValidateErrorsFirst(Tail(rules), data)

\* validate(data) under allErrors: validate.errors, every keyword evaluated
RECURSIVE ValidateErrors(_, _)
ValidateErrors(rules, data) ==
    IF Len(rules) = 0 THEN << >>
    ELSE RuleErrors(Head(rules), data) \o ValidateErrors(Tail(rules), data)

\* errors.map(err => `${err.instancePath} ${err.message}`).join(', ')
RECURSIVE JoinErrors(_)
JoinErrors(errors) ==
    LET one(err) == err.instancePath \o << " " >> \o err.message
    IN  IF Len(errors) = 0 THEN << >>
        ELSE IF Len(errors) = 1 THEN one(errors[1])
        ELSE one(errors[1]) \o << ", " >> \o JoinErrors(Tail(errors))

\* validateJsonSchema whose catch reports the fallback text of line 96
\* instead of the message of the exception
validateJsonSchemaFallback(fsys, workdir, filePath, validate) ==
    LET content == ReadFileSync(fsys, workdir, filePath)
        parsed == IF content.ok THEN JSONParse(content.val) ELSE content
        errors == ValidateErrors(validate.rules, parsed.val)
    IN  IF ~content.ok \/ ~parsed.ok
          THEN Invalid(filePath, << "Unknown validation error" >>)
        ELSE IF Len(errors) > 0 THEN Invalid(filePath, JoinErrors(errors))
        ELSE Valid(filePath)

\* validateJsonSchema(filePath, validate)
validateJsonSchema(fsys, workdir, filePath, validate) ==
    LET content == ReadFileSync(fsys, workdir, filePath)
        parsed == IF content.ok THEN JSONParse(content.val) ELSE content
        errors == ValidateErrors(validate.rules, parsed.val)
        joined == IF JoinErrors(errors) # << >> THEN JoinErrors(errors)
                  ELSE << "Unknown validation error" >>
    IN  IF ~content.ok THEN Invalid(filePath, content.err)
        ELSE IF ~parsed.ok THEN Invalid(filePath, parsed.err)
        ELSE IF Len(errors) > 0 THEN Invalid(filePath, joined)
        ELSE Valid(filePath)

(***************************************************************************)
(* The repository the action runs in: the paths that can hold a file, the  *)
(* texts a document can hold, the inputs the workflow can give.            *)
(***************************************************************************)

MaxDocs == 2

W == << S, "w" >>
WData == W \o << S, "data" >>
DocA == WData \o << S, "a", D, "json" >>
DocB == WData \o << S, "sub", S, "b", D, "json" >>
DocC == W \o << S, "c", D, "json" >>
UserSchema == WData \o << S, "user", D, "schema", D, "json" >>
ProductSchema == W \o << S, "schema", S, "product", D, "schema", D, "json" >>
DistFile == W \o << S, "dist", S, "bundle", D, "json" >>
Notes == WData \o << S, "notes", D, "md" >>

\* the order in which a directory walk from the root meets the paths
DiskListing == << DocC, DocA, Notes, DocB, UserSchema, DistFile, ProductSchema >>

RefUser == << D, S, "user", D, "schema", D, "json" >>
RefUpUser == << D, D, S, "user", D, "schema", D, "json" >>
RefProduct == << D, D, S, "schema", S, "product", D, "schema", D, "json" >>
RefAbsProduct == ProductSchema
RefHttp == << "http:", S, S, "json-schema", D, "org", S, "draft-07", S, "schema#" >>
RefHttps == << "https:", S, S, "json-schema", D, "org", S, "draft-07", S, "schema#" >>
RefHttpDir == << "http:", S, "user", D, "schema", D, "json" >>

TBad == Text("bad", "object", NoMember, TRUE, 5)
TBadWithSchema == Text("bad", "object", StringMember(RefUser), TRUE, 5)
TArray == Text("ok", "array", NoMember, FALSE, 5)
TNull == Text("ok", "null", NoMember, FALSE, 5)
TPlain == Text("ok", "object", NoMember, TRUE, 5)
TNumberSchema == Text("ok", "object", NumberMember, TRUE, 5)
THttp == Text("ok", "object", StringMember(RefHttp), TRUE, 5)
THttps == Text("ok", "object", StringMember(RefHttps), FALSE, 5)
THttpDir == Text("ok", "object", StringMember(RefHttpDir), TRUE, 5)
TUser == Text("ok", "object", StringMember(RefUser), TRUE, 5)
TUserBroken == Text("ok", "object", StringMember(RefUser), FALSE, -5)
TUpUser == Text("ok", "object", StringMember(RefUpUser), FALSE, 5)
TProduct == Text("ok", "object", StringMember(RefProduct), FALSE, -5)
TAbsProduct == Text("ok", "object", StringMember(RefAbsProduct), TRUE, 5)
TEmptySchema == Text("ok", "object", StringMember(<< >>), TRUE, 5)

\* what each document path can hold
EntriesOf(doc) ==
    IF doc = DocA
      THEN {File(t) : t \in {TBad, TBadWithSchema, TArray, TNull, TPlain, TNumberSchema,
                             THttp, THttps, THttpDir, TUser, TUserBroken, TProduct,
                             TAbsProduct, TEmptySchema}}
           \cup {Unreadable(TUser)}
    ELSE IF doc = DocB
      THEN {File(t) : t \in {TBad, TPlain, TUpUser, TProduct, TUser}}
    ELSE {File(t) : t \in {TBadWithSchema, TPlain, TProduct}}

UserSchemaRules == << "type", "required" >>
ProductSchemaRules == << "type", "required", "minimum" >>

\* what the schema file data/user.schema.json can be
UserSchemaEntries ==
    { Absent,
      File(SchemaText("ok", TRUE, UserSchemaRules)),
      File(SchemaText("bad", TRUE, UserSchemaRules)),
      File(SchemaText("ok", FALSE, UserSchemaRules)) }

Docs == {DocA, DocB, DocC}

Disks ==
    { [p \in {DocA, DocB, DocC, UserSchema, ProductSchema, DistFile, Notes, W, WData} |->
          IF p = DocA THEN a
          ELSE IF p = DocB THEN b
          ELSE IF p = DocC THEN c
          ELSE IF p = UserSchema THEN u
          ELSE IF p = ProductSchema THEN File(SchemaText("ok", TRUE, ProductSchemaRules))
          ELSE IF p = DistFile THEN File(TBad)
          ELSE IF p = Notes THEN File(TBad)
          ELSE Dir] :
      a \in EntriesOf(DocA) \cup {Absent}, b \in EntriesOf(DocB) \cup {Absent},
      c \in EntriesOf(DocC) \cup {Absent}, u \in UserSchemaEntries }

Present(fsys) == {d \in Docs : fsys[d].kind # "absent"}

Folders == { << >>, << "data" >> }
SchemaInputs == { << >>, << "data", S, "user", D, "schema", D, "json" >> }
FailOnInvalidInputs == { "true", "false" }
WorkDirs == { W, WData }

\* the ignore input, as the list of patterns it gives: not supplied, one
\* pattern that is not about dist, the dist pattern and one for sub
IgnoreInputs ==
    { << >>,
      << << "**", S, "node_modules", S, "**" >> >>,
      << << "**", S, "dist", S, "**" >>, << "**", S, "sub", S, "**" >> >> }

(***************************************************************************)
(* The run: inputs, the disk it works on, and the state of run()           *)
(***************************************************************************)

VARIABLES
    inputs,          \* the action's inputs: folder, schema, fail-on-invalid
    cwd,             \* process.cwd()
    disk,            \* the file system
    pc,              \* the position of run()
    jsonFiles,       \* run: const jsonFiles
    idx,             \* position of the validation loop in jsonFiles
    globalValidate,  \* run: let globalValidate
    fileValidate,    \* run: let fileValidate (of the current iteration)
    fileSchemaPath,  \* run: const fileSchemaPath (of the current iteration)
    results,         \* run: const results
    outputs,         \* the core.setOutput calls made, in order
    failed,          \* the core.setFailed calls made, in order
    log,             \* the core.warning and core.error lines, in order
    trace,           \* the calls of loadSchema, ajv.compile and
                     \* extractSchemaFromJson made, in order
    reads            \* the fs.readFileSync calls made on documents, in
                     \* order, each with the file and what it returned

vars == << inputs, cwd, disk, pc, jsonFiles, idx, globalValidate, fileValidate,
           fileSchemaPath, results, outputs, failed, log, trace, reads >>

Called(op, path) == [op |-> op, path |-> path]

\* a call fs.readFileSync(file, 'utf-8') and its outcome
Read(file, outcome) == [file |-> file, outcome |-> outcome]

ValidFilesAll(rs) == rs

\* results.filter(r => r.valid), results.filter(r => !r.valid)
\* the invalid results, latest first
InvalidFilesLatestFirst(rs) ==
    LET invalid == SelectSeq(rs, LAMBDA r : ~r.valid)
    IN  [i \in 1 .. Len(invalid) |-> invalid[Len(invalid) + 1 - i]]

ValidFiles(rs) == SelectSeq(rs, LAMBDA r : r.valid)
InvalidFiles(rs) == SelectSeq(rs, LAMBDA r : ~r.valid)

ActionFailedBare(message) == << "Action failed" >>

\* the catch of run: core.setFailed(`Action failed: ${errorMessage}`)
ActionFailed(message) == << "Action failed: " >> \o message

\* run, up to the end of discovery: the inputs are read, the files are
\* found; with no file found the run warns, sets both outputs to 0 and returns
Discover ==
    /\ pc = "start"
    /\ LET folder == IF inputs.folder # << >> THEN inputs.folder ELSE << D >>
           files == findJsonFiles(disk, DiskListing, cwd, folder)
       IN  /\ jsonFiles' = files
           /\ IF Len(files) = 0
                THEN /\ log' = Append(log, [level |-> "warning",
                                            text |-> << "No JSON files found in " >> \o folder])
                     /\ outputs' = outputs \o << << "valid-files", 0 >>,
                                                 << "invalid-files", 0 >> >>
                     /\ pc' = "done"
              ELSE /\ pc' = "prepare"
                   /\ UNCHANGED << log, outputs >>
    /\ UNCHANGED << inputs, cwd, disk, idx, globalValidate, fileValidate,
                    fileSchemaPath, results, failed, trace, reads >>

\* run without the catch of lines 199-202: what loadSchema or ajv.compile
\* throws rejects the promise of run
PrepareUncaught ==
    /\ pc = "prepare"
    /\ LET schemaPath == inputs.schema
           schema == loadSchema(disk, cwd, schemaPath)
           compiled == Compile(schema.val, schemaPath)
       IN  IF schemaPath = << >>
             THEN /\ globalValidate' = Null
                  /\ pc' = "resolve"
                  /\ UNCHANGED trace
           ELSE IF ~schema.ok
             THEN /\ trace' = Append(trace, Called("loadSchema", schemaPath))
                  /\ pc' = "rejected"
                  /\ UNCHANGED globalValidate
           ELSE /\ trace' = trace \o << Called("loadSchema", schemaPath),
                                        Called("compile", schemaPath) >>
                /\ globalValidate' = IF compiled.ok THEN compiled.val ELSE Null
                /\ pc' = IF compiled.ok THEN "resolve" ELSE "rejected"
    /\ idx' = 1
    /\ UNCHANGED << inputs, cwd, disk, jsonFiles, fileValidate, fileSchemaPath,
                    results, outputs, failed, log, reads >>

\* run, from the global schema to the start of the loop: a global schema is
\* loaded and compiled once; an Error thrown here is caught at the end of run
Prepare ==
    /\ pc = "prepare"
    /\ LET schemaPath == inputs.schema
           schema == loadSchema(disk, cwd, schemaPath)
           compiled == Compile(schema.val, schemaPath)
       IN  IF schemaPath = << >>
             THEN /\ globalValidate' = Null
                  /\ pc' = "resolve"
                  /\ UNCHANGED << failed, trace >>
           ELSE IF ~schema.ok
             THEN /\ trace' = Append(trace, Called("loadSchema", schemaPath))
                  /\ failed' = Append(failed, ActionFailed(schema.err))
                  /\ pc' = "done"
                  /\ UNCHANGED globalValidate
           ELSE IF ~compiled.ok
             THEN /\ trace' = trace \o << Called("loadSchema", schemaPath),
                                          Called("compile", schemaPath) >>
                  /\ failed' = Append(failed, ActionFailed(compiled.err))
                  /\ pc' = "done"
                  /\ UNCHANGED globalValidate
           ELSE /\ trace' = trace \o << Called("loadSchema", schemaPath),
                                        Called("compile", schemaPath) >>
                /\ globalValidate' = compiled.val
                /\ pc' = "resolve"
                /\ UNCHANGED failed
    /\ idx' = 1
    /\ UNCHANGED << inputs, cwd, disk, jsonFiles, fileValidate, fileSchemaPath,
                    results, outputs, log, reads >>

HasGlobalNever(validate) == FALSE

\* if (!globalValidate): a compiled validator is an object, hence truthy
HasGlobal(validate) == validate # Null

SchemaUsableUnchecked(fsys, workdir, schemaPath) == schemaPath # Null

\* if (fileSchemaPath && fs.existsSync(fileSchemaPath))
SchemaUsable(fsys, workdir, schemaPath) ==
    schemaPath # Null /\ ExistsSync(fsys, workdir, schemaPath)

\* one iteration of the loop, up to the choice of the validator: without a
\* global validator the document is read, its $schema is extracted and, if
\* that file exists, loaded and compiled; whatever is thrown is swallowed
Resolve ==
    /\ pc = "resolve"
    /\ LET file == jsonFiles[idx]
           content == ReadFileSync(disk, cwd, file)
           schemaPath == extractSchemaFromJson(content.val, file, cwd)
           exists == SchemaUsable(disk, cwd, schemaPath)
           schema == loadSchema(disk, cwd, schemaPath)
           compiled == Compile(schema.val, schemaPath)
       IN  IF HasGlobal(globalValidate)
             THEN /\ fileValidate' = globalValidate
                  /\ UNCHANGED << fileSchemaPath, trace, reads >>
           ELSE IF ~content.ok
             THEN /\ fileValidate' = globalValidate
                  /\ reads' = Append(reads, Read(file, content))
                  /\ UNCHANGED << fileSchemaPath, trace >>
           ELSE /\ fileSchemaPath' = schemaPath
                /\ reads' = Append(reads, Read(file, content))
                /\ trace' = trace
                     \o << Called("extractSchemaFromJson", file) >>
                     \o (IF exists THEN << Called("loadSchema", schemaPath) >> ELSE << >>)
                     \o (IF exists /\ schema.ok THEN << Called("compile", schemaPath) >>
                         ELSE << >>)
                /\ fileValidate' = IF exists /\ schema.ok /\ compiled.ok THEN compiled.val
                                   ELSE globalValidate
    /\ pc' = "validate"
    /\ UNCHANGED << inputs, cwd, disk, jsonFiles, idx, globalValidate, results,
                    outputs, failed, log >>

\* the rest of the iteration: the document is validated against the chosen
\* validator, or for syntax only, and its result is pushed
Validate ==
    /\ pc = "validate"
    /\ LET file == jsonFiles[idx]
       IN  /\ results' = Append(results,
                  IF fileValidate # Null
                    THEN validateJsonSchema(disk, cwd, file, fileValidate)
                  ELSE validateJsonSyntax(disk, cwd, file))
           /\ reads' = Append(reads, Read(file, ReadFileSync(disk, cwd, file)))
    /\ idx' = idx + 1
    /\ pc' = IF idx < Len(jsonFiles) THEN "resolve" ELSE "aggregate"
    /\ fileValidate' = Null
    /\ fileSchemaPath' = Null
    /\ UNCHANGED << inputs, cwd, disk, jsonFiles, globalValidate, outputs, failed,
                    log, trace >>

\* the core.error lines of the report, one per invalid file
ErrorLines(invalid, workdir) ==
    [i \in 1 .. Len(invalid) |->
        [level |-> "error",
         text |-> << "  - " >> \o PathRelative(workdir, invalid[i].file, workdir)
                    \o << ": " >> \o invalid[i].error]]

\* run, after the loop: the results are split, reported, counted into the
\* outputs, and the action is failed if there is an invalid file
Aggregate ==
    /\ pc = "aggregate"
    /\ LET validFiles == ValidFiles(results)
           invalidFiles == InvalidFiles(results)
       IN  /\ log' = IF Len(invalidFiles) > 0
                       THEN log \o << [level |-> "error",
                                       text |-> << "Invalid files: ", ToString(Len(invalidFiles)) >>] >>
                                \o ErrorLines(invalidFiles, cwd)
                     ELSE log
           /\ outputs' = outputs \o << << "valid-files", Len(validFiles) >>,
                                       << "invalid-files", Len(invalidFiles) >> >>
           /\ failed' = IF Len(invalidFiles) > 0
                          THEN Append(failed, << "Found ", ToString(Len(invalidFiles)),
                                                 " invalid JSON file(s)" >>)
                        ELSE failed
    /\ pc' = "done"
    /\ UNCHANGED << inputs, cwd, disk, jsonFiles, idx, globalValidate, fileValidate,
                    fileSchemaPath, results, trace, reads >>

Init ==
    /\ inputs \in [folder : Folders, schema : SchemaInputs,
                   failOnInvalid : FailOnInvalidInputs, ignore : { << >> }]
    /\ cwd \in WorkDirs
    /\ disk \in {d \in Disks : Cardinality(Present(d)) <= MaxDocs}
    /\ pc = "start"
    /\ jsonFiles = << >>
    /\ idx = 1
    /\ globalValidate = Null
    /\ fileValidate = Null
    /\ fileSchemaPath = Null
    /\ results = << >>
    /\ outputs = << >>
    /\ failed = << >>
    /\ log = << >>
    /\ trace = << >>
    /\ reads = << >>

\* the runs of a workflow that may supply the ignore input
InitIgnore ==
    /\ inputs \in [folder : Folders, schema : { << >> },
                   failOnInvalid : { "true" }, ignore : IgnoreInputs]
    /\ cwd \in WorkDirs
    /\ disk \in {d \in Disks : Cardinality(Present(d)) <= MaxDocs}
    /\ pc = "start"
    /\ jsonFiles = << >>
    /\ idx = 1
    /\ globalValidate = Null
    /\ fileValidate = Null
    /\ fileSchemaPath = Null
    /\ results = << >>
    /\ outputs = << >>
    /\ failed = << >>
    /\ log = << >>
    /\ trace = << >>
    /\ reads = << >>

\* the texts another process may write to a document while run is going on
ModifiedTexts == { TBad, TPlain, TUserBroken }

\* another process writes a document that run is working on: after run has
\* come to the document and before it has validated it
ModifyFile ==
    /\ pc \in { "resolve", "validate" }
    /\ jsonFiles[idx] \in Docs
    /\ \E text \in ModifiedTexts :
          /\ disk[jsonFiles[idx]] # File(text)
          /\ disk' = [disk EXCEPT ![jsonFiles[idx]] = File(text)]
    /\ UNCHANGED << inputs, cwd, pc, jsonFiles, idx, globalValidate, fileValidate,
                    fileSchemaPath, results, outputs, failed, log, trace, reads >>

\* the runs during which documents are written: no global schema, from the
\* repository root
InitModify ==
    /\ inputs \in [folder : Folders, schema : { << >> },
                   failOnInvalid : { "true" }, ignore : { << >> }]
    /\ cwd = W
    /\ disk \in {d \in Disks : Cardinality(Present(d)) <= MaxDocs}
    /\ pc = "start"
    /\ jsonFiles = << >>
    /\ idx = 1
    /\ globalValidate = Null
    /\ fileValidate = Null
    /\ fileSchemaPath = Null
    /\ results = << >>
    /\ outputs = << >>
    /\ failed = << >>
    /\ log = << >>
    /\ trace = << >>
    /\ reads = << >>

Next == Discover \/ Prepare \/ Resolve \/ Validate \/ Aggregate

NextModify == Next \/ ModifyFile

Spec == Init /\ [][Next]_vars

SpecIgnore == InitIgnore /\ [][Next]_vars

SpecModify == InitModify /\ [][NextModify]_vars

(***************************************************************************)
(* Properties                                                              *)
(***************************************************************************)

\* the calls of op recorded so far, in order
CallsOf(op) == SelectSeq(trace, LAMBDA c : c.op = op)

\* the text of a discovered file, as the run reads it
Readable(file) == disk[file].kind = "file" /\ disk[file].readable

TextOf(file) == disk[file].text

\* the document declares a "$schema" string, whatever it names
DeclaresSchema(file) ==
    /\ Readable(file)
    /\ TextOf(file).syntax = "ok"
    /\ TextOf(file).root = "object"
    /\ TextOf(file).schema.t = "string"

\* the global schema has been loaded and compiled
GlobalCompiled == pc \notin {"start", "prepare"} /\ globalValidate # Null

\* the run ended at the global schema, before the loop
SetupError == pc = "done" /\ Len(jsonFiles) > 0 /\ results = << >>

\* the run went through the loop and the aggregation
Aggregated == pc = "done" /\ Len(jsonFiles) > 0 /\ Len(results) = Len(jsonFiles)

NumValid == Cardinality({i \in 1 .. Len(results) : results[i].valid})
NumInvalid == Cardinality({i \in 1 .. Len(results) : ~results[i].valid})

\* C1: with a non-empty schema input whose schema loads and compiles, every
\* document is validated with the global validator and no document's $schema
\* is read or resolved: extractSchemaFromJson is never called, the only
\* schema loaded and compiled is the global one, whatever the documents declare
C1_GlobalPrecedence ==
    (inputs.schema # << >> /\ GlobalCompiled) =>
        /\ globalValidate.from = inputs.schema
        /\ CallsOf("extractSchemaFromJson") = << >>
        /\ trace = << Called("loadSchema", inputs.schema), Called("compile", inputs.schema) >>
        /\ pc = "validate" => fileValidate = globalValidate
        /\ pc = "done" =>
              /\ Len(results) = Len(jsonFiles)
              /\ \A i \in 1 .. Len(results) :
                    results[i] = validateJsonSchema(disk, cwd, jsonFiles[i], globalValidate)

\* a finished run under a global schema over a document that declares a
\* local schema which exists, and one that declares another
C1_Witness ==
    /\ pc = "done"
    /\ inputs.schema # << >>
    /\ globalValidate # Null
    /\ \E i, j \in 1 .. Len(results) :
          /\ DeclaresSchema(jsonFiles[i])
          /\ disk[jsonFiles[i]].text.schema.s = RefProduct
          /\ DeclaresSchema(jsonFiles[j])
          /\ disk[jsonFiles[j]].text.schema.s = RefUpUser

\* the compilations made so far that gave a validator
Compilations ==
    SelectSeq(CallsOf("compile"),
              LAMBDA c : Compile(loadSchema(disk, cwd, c.path).val, c.path).ok)

\* C2: the number of schema compilations of a run equals the number of
\* distinct schema paths compiled: documents that declare the same local
\* schema path trigger one compilation
C2_CompileOncePerPath ==
    Len(Compilations) = Cardinality({Compilations[i].path : i \in 1 .. Len(Compilations)})

\* C3: with fail-on-invalid false, a run without setup error that finds
\* invalid files ends with success status
C3_NoFailureWhenNotFailOnInvalid ==
    (inputs.failOnInvalid = "false" /\ Aggregated /\ NumInvalid > 0) => failed = << >>

\* C4: with fail-on-invalid true and no setup error the run is failed exactly
\* when there is an invalid result, the outputs are the numbers of valid and
\* of invalid results; one valid and one malformed file with no schema give
\* valid-files = 1, invalid-files = 1 and a failed run
C4_StatusAndCounts ==
    (inputs.failOnInvalid = "true" /\ pc = "done" /\ ~SetupError) =>
        /\ (failed # << >>) <=> (NumInvalid > 0)
        /\ Len(failed) <= 1
        /\ outputs = << << "valid-files", NumValid >>, << "invalid-files", NumInvalid >> >>
        /\ NumValid + NumInvalid = Len(jsonFiles)
        /\ ( /\ inputs.schema = << >>
             /\ Len(jsonFiles) = 2
             /\ \E i, j \in 1 .. 2 : /\ disk[jsonFiles[i]] = File(TPlain)
                                     /\ disk[jsonFiles[j]] = File(TBad) )
           => /\ outputs = << << "valid-files", 1 >>, << "invalid-files", 1 >> >>
              /\ failed # << >>

\* a finished run over one valid and one malformed file, no schema, failed
C4_Witness ==
    /\ inputs.failOnInvalid = "true"
    /\ Aggregated
    /\ inputs.schema = << >>
    /\ Len(jsonFiles) = 2
    /\ disk[jsonFiles[1]] = File(TPlain)
    /\ disk[jsonFiles[2]] = File(TBad)
    /\ failed # << >>

\* sub occurs in s
Contains(s, sub) ==
    \E i \in 1 .. (Len(s) - Len(sub) + 1) : SubSeq(s, i, i + Len(sub) - 1) = sub

\* the entry the schema input names on disk
GlobalSchemaEntry == Entry(disk, PathResolve(<< inputs.schema >>, cwd))

\* a global schema is configured and its file cannot be read or is not JSON
GlobalSchemaBroken ==
    /\ inputs.schema # << >>
    /\ \/ GlobalSchemaEntry.kind # "file"
       \/ ~GlobalSchemaEntry.readable
       \/ GlobalSchemaEntry.text.syntax = "bad"

\* C5 as stated: with a broken global schema the run ends failed, whatever
\* the set of documents discovered
C5_BrokenGlobalSchemaFails ==
    (GlobalSchemaBroken /\ pc = "done") => failed # << >>

\* C5 amended: with a broken global schema the run ends failed whenever at
\* least one document is discovered; when none is, the schema is never loaded
\* and the run ends with success
C5_BrokenGlobalSchemaFailsIfFiles ==
    (GlobalSchemaBroken /\ pc = "done") =>
        /\ Len(jsonFiles) > 0 => Len(failed) = 1
        /\ Len(jsonFiles) = 0 => (failed = << >> /\ trace = << >>)

\* a finished run with a broken global schema over two documents
C5_Witness ==
    /\ GlobalSchemaBroken
    /\ pc = "done"
    /\ Len(jsonFiles) >= 2
    /\ failed # << >>

\* the text of what made loading the global schema fail
GlobalLoadCause ==
    IF ReadFileSync(disk, cwd, inputs.schema).ok THEN SyntaxErrorMessage
    ELSE ReadFileSync(disk, cwd, inputs.schema).err

\* C6: a failure to load the global schema comes before any validation: no
\* result is produced, no output is set, nothing is compiled, and the run is
\* failed once with a message that holds the schema path and the cause
C6_GlobalLoadFailureIsAtomic ==
    (GlobalSchemaBroken /\ pc = "done" /\ Len(jsonFiles) > 0) =>
        /\ results = << >>
        /\ outputs = << >>
        /\ trace = << Called("loadSchema", inputs.schema) >>
        /\ Len(failed) = 1
        /\ Contains(failed[1], inputs.schema)
        /\ Contains(failed[1], GlobalLoadCause)

\* a run that ended at a global schema file which is there but is not JSON
C6_Witness ==
    /\ pc = "done"
    /\ Len(jsonFiles) >= 2
    /\ inputs.schema # << >>
    /\ GlobalSchemaEntry.kind = "file"
    /\ GlobalSchemaEntry.text.syntax = "bad"
    /\ Len(failed) = 1

\* the document declares a local schema whose file is not on disk
DeclaresMissingSchema(file) ==
    /\ DeclaresSchema(file)
    /\ ~StartsWith(TextOf(file).schema.s, HttpPrefix)
    /\ ~StartsWith(TextOf(file).schema.s, HttpsPrefix)
    /\ Entry(disk, PathResolve(<< PathDirname(file), TextOf(file).schema.s >>, cwd)).kind
          = "absent"

\* C7: with no global schema, a document whose $schema names a local path
\* that is not on disk gets the result of validateJsonSyntax: no schema load
\* is attempted, the document is not marked invalid, the run is not aborted
C7_MissingLocalSchemaIsSyntaxOnly ==
    inputs.schema = << >> =>
        /\ (pc = "validate" /\ DeclaresMissingSchema(jsonFiles[idx])) =>
              /\ fileValidate = Null
              /\ \A k \in 1 .. Len(trace) :
                    trace[k].op \in {"loadSchema", "compile"} =>
                       trace[k].path # PathResolve(<< PathDirname(jsonFiles[idx]),
                                           TextOf(jsonFiles[idx]).schema.s >>, cwd)
        /\ pc = "done" =>
              /\ \A i \in 1 .. Len(results) :
                    DeclaresMissingSchema(jsonFiles[i]) =>
                       /\ results[i] = validateJsonSyntax(disk, cwd, jsonFiles[i])
                       /\ results[i] = Valid(jsonFiles[i])
              /\ failed # << >> <=> NumInvalid > 0
              /\ Len(jsonFiles) > 0 => Aggregated

\* a finished run without global schema in which a document declaring a
\* missing local schema was validated, next to another document
C7_Witness ==
    /\ inputs.schema = << >>
    /\ Aggregated
    /\ Len(results) >= 2
    /\ \E i \in 1 .. Len(results) :
          DeclaresMissingSchema(jsonFiles[i]) /\ results[i].valid

\* the text starts with http:// or with https://
IsUrl(str) ==
    /\ Len(str) >= 3
    /\ str[1] \in {"http:", "https:"}
    /\ str[2] = S
    /\ str[3] = S

\* the texts for which no schema is to be found: not JSON, root not an
\* object, no "$schema", "$schema" not a string, "$schema" a URL
NoSchemaText(text) ==
    \/ text.syntax = "bad"
    \/ text.root # "object"
    \/ text.schema.t = "absent"
    \/ text.schema.t # "string"
    \/ IsUrl(text.schema.s)

\* the texts that declare a local schema
LocalSchemaText(text) == ~NoSchemaText(text)

\* C8: extractSchemaFromJson returns null (a value, computed from its
\* arguments alone) for every content that is not JSON, whose root is not an
\* object, that has no "$schema", whose "$schema" is not a string or is an
\* http:// or https:// URL; in run such a document is validated for syntax only
C8_NoSchemaExtracted ==
    /\ ( /\ pc = "validate"
         /\ Readable(jsonFiles[idx])
         /\ NoSchemaText(TextOf(jsonFiles[idx])) )
       => /\ \A w \in WorkDirs :
                extractSchemaFromJson(TextOf(jsonFiles[idx]), jsonFiles[idx], w) = Null
          /\ inputs.schema = << >> => (fileSchemaPath = Null /\ fileValidate = Null)
    /\ (pc = "done" /\ inputs.schema = << >>) =>
          /\ \A i \in 1 .. Len(results) :
                (Readable(jsonFiles[i]) /\ NoSchemaText(TextOf(jsonFiles[i]))) =>
                   results[i] = validateJsonSyntax(disk, cwd, jsonFiles[i])
          /\ (\A i \in 1 .. Len(jsonFiles) :
                 Readable(jsonFiles[i]) => NoSchemaText(TextOf(jsonFiles[i])))
             => CallsOf("loadSchema") = << >>

\* a finished run without global schema over a document whose "$schema" is
\* an https URL and a malformed document that shows a "$schema"
C8_Witness ==
    /\ inputs.schema = << >>
    /\ Aggregated
    /\ \E i, j \in 1 .. Len(results) :
          /\ disk[jsonFiles[i]] = File(THttps)
          /\ results[i].valid
          /\ disk[jsonFiles[j]] = File(TBadWithSchema)
          /\ ~results[j].valid

\* ref resolved against the directory of file, with no working directory
ResolvedAgainstDirectory(file, ref) ==
    << S >> \o NormalizeString(IF IsAbsolute(ref) THEN ref
                               ELSE PathDirname(file) \o << S >> \o ref, FALSE)

ExampleDoc == << S, "a", S, "b", S, "doc", D, "json" >>
ExampleSchema == << S, "a", S, "b", S, "user", D, "schema", D, "json" >>

\* C9: for a content that parses to an object with a string "$schema" that is
\* no http(s) URL, extractSchemaFromJson returns the absolute path got by
\* resolving the string against the directory of the document, the same in
\* every working directory; ./user.schema.json in /a/b/doc.json gives
\* /a/b/user.schema.json
C9_ResolvedAgainstDocumentDirectory ==
    /\ ( /\ pc = "validate"
         /\ Readable(jsonFiles[idx])
         /\ LocalSchemaText(TextOf(jsonFiles[idx])) )
       => /\ \A w \in WorkDirs \cup { << S >> } :
                /\ extractSchemaFromJson(TextOf(jsonFiles[idx]), jsonFiles[idx], w) # Null
                /\ IsAbsolute(extractSchemaFromJson(TextOf(jsonFiles[idx]), jsonFiles[idx], w))
                /\ extractSchemaFromJson(TextOf(jsonFiles[idx]), jsonFiles[idx], w)
                      = ResolvedAgainstDirectory(jsonFiles[idx],
                                                 TextOf(jsonFiles[idx]).schema.s)
          /\ inputs.schema = << >> =>
                fileSchemaPath = ResolvedAgainstDirectory(jsonFiles[idx],
                                                          TextOf(jsonFiles[idx]).schema.s)
    /\ pc = "start" => extractSchemaFromJson(TUser, ExampleDoc, cwd) = ExampleSchema

\* the loop has resolved ./user.schema.json of data/a.json to
\* data/user.schema.json in a process that runs in data
C9_Witness ==
    /\ pc = "validate"
    /\ inputs.schema = << >>
    /\ cwd = WData
    /\ jsonFiles[idx] = DocA
    /\ disk[DocA] = File(TUser)
    /\ fileSchemaPath = UserSchema

ProductRel == << "schema", S, "product", D, "schema", D, "json" >>

\* the document declares ../schema/product.schema.json
DeclaresProduct(d) ==
    /\ Readable(d)
    /\ LocalSchemaText(TextOf(d))
    /\ TextOf(d).schema.s = RefProduct

\* C10 as stated: for "$schema": "../schema/product.schema.json" the path
\* returned is absolute and is two levels up from the document's directory
\* joined with schema/product.schema.json
C10_TwoLevelsUp ==
    (pc = "validate" /\ inputs.schema = << >> /\ DeclaresProduct(jsonFiles[idx])) =>
       /\ IsAbsolute(fileSchemaPath)
       /\ fileSchemaPath
             = PathJoin(PathDirname(PathDirname(PathDirname(jsonFiles[idx]))), ProductRel)

\* C10 amended: the path returned is absolute and is one level up from the
\* document's directory (the parent of that directory) joined with
\* schema/product.schema.json
C10_OneLevelUp ==
    (pc = "validate" /\ DeclaresProduct(jsonFiles[idx])) =>
       /\ IsAbsolute(extractSchemaFromJson(TextOf(jsonFiles[idx]), jsonFiles[idx], cwd))
       /\ extractSchemaFromJson(TextOf(jsonFiles[idx]), jsonFiles[idx], cwd)
             = PathJoin(PathDirname(PathDirname(jsonFiles[idx])), ProductRel)
       /\ inputs.schema = << >> =>
             fileSchemaPath = PathJoin(PathDirname(PathDirname(jsonFiles[idx])), ProductRel)

\* the loop has resolved ../schema/product.schema.json of data/sub/b.json
C10_Witness ==
    /\ pc = "validate"
    /\ inputs.schema = << >>
    /\ jsonFiles[idx] = DocB
    /\ DeclaresProduct(DocB)
    /\ fileSchemaPath = WData \o << S >> \o ProductRel

\* paths handed to the validation functions beside the discovered files: a
\* file which is not there, and a directory
MissingDoc == WData \o << S, "missing", D, "json" >>
ProbePaths == { MissingDoc, WData }

\* the paths the validation functions are looked at with, in a state: the
\* file run is about to validate, and before the loop the paths above
PathsAt == IF pc = "validate" THEN { jsonFiles[idx] }
           ELSE IF pc = "prepare" THEN ProbePaths
           ELSE { }

\* the file can be read and its content parses
ReadsAndParses(file) ==
    /\ Entry(disk, file).kind = "file"
    /\ Entry(disk, file).readable
    /\ Entry(disk, file).text.syntax = "ok"

\* a ValidationResult, and so not an exception
IsResult(r) == DOMAIN r = { "valid", "file", "error" }

\* C11: validateJsonSyntax never throws, for any path: it returns the result
\* { valid: true, file: path } without error exactly when the file can be read
\* and its content parses, and otherwise { valid: false, file: path, error }
\* with a defined error text, for a missing or unreadable file as for
\* malformed content
C11_SyntaxResultIsTotal ==
    \A path \in PathsAt :
        LET r == validateJsonSyntax(disk, cwd, path)
        IN  /\ IsResult(r)
            /\ r.file = path
            /\ r.valid <=> ReadsAndParses(path)
            /\ IF r.valid THEN r.error = Null ELSE Len(r.error) > 0

\* a run that has recorded, for syntax only, a valid document, an unreadable
\* one and a malformed one
C11_Witness ==
    /\ pc = "done"
    /\ inputs.schema = << >>
    /\ \E i, j, k \in 1 .. Len(results) :
          /\ results[i] = Valid(jsonFiles[i])
          /\ disk[jsonFiles[i]].text.schema = NoMember
          /\ disk[jsonFiles[j]] = Unreadable(TUser)
          /\ results[j] = validateJsonSyntax(disk, cwd, jsonFiles[j])
          /\ ~results[j].valid
          /\ Readable(jsonFiles[k])
          /\ TextOf(jsonFiles[k]).syntax # "ok"
          /\ results[k] = Invalid(jsonFiles[k], SyntaxErrorMessage)

\* the validate functions the schemas of the repository compile to
Validators ==
    { Compile(JSONParse(SchemaText("ok", TRUE, rules)).val, UserSchema).val :
        rules \in { << >>, UserSchemaRules, ProductSchemaRules } }

\* C12: for every document that cannot be read or is not valid JSON, and for
\* every compiled validator, validateJsonSchema returns what validateJsonSyntax
\* returns, valid false with the same error text; so validateJsonSchema never
\* returns a valid result for a document validateJsonSyntax reports invalid
C12_SchemaResultSubsumesSyntax ==
    /\ \A path \in PathsAt, validate \in Validators :
          LET syntax == validateJsonSyntax(disk, cwd, path)
              schema == validateJsonSchema(disk, cwd, path, validate)
          IN  /\ ~ReadsAndParses(path) => (schema = syntax /\ ~schema.valid)
              /\ schema.valid => syntax.valid
    /\ pc = "done" =>
          \A i \in 1 .. Len(results) :
              ~ReadsAndParses(jsonFiles[i]) =>
                  results[i] = validateJsonSyntax(disk, cwd, jsonFiles[i])

\* a run that validated against a schema a malformed document and an
\* unreadable one
C12_Witness ==
    /\ pc = "done"
    /\ globalValidate # Null
    /\ \E i, j \in 1 .. Len(results) :
          /\ Readable(jsonFiles[i])
          /\ TextOf(jsonFiles[i]).syntax # "ok"
          /\ results[i] = Invalid(jsonFiles[i], SyntaxErrorMessage)
          /\ disk[jsonFiles[j]] = Unreadable(TUser)
          /\ ~results[j].valid

\* the violations a validator reports on data: what each keyword of the
\* schema reports, in the order of the keywords
RECURSIVE Violations(_, _, _)
Violations(rules, data, n) ==
    IF n = 0 THEN << >>
    ELSE Violations(rules, data, n - 1) \o RuleErrors(rules[n], data)

\* the text of the first n violations: "<instance-location> <message>" of
\* each, separated by ", "
RECURSIVE Listed(_, _)
Listed(violations, n) ==
    IF n = 0 THEN << >>
    ELSE (IF n = 1 THEN << >> ELSE Listed(violations, n - 1) \o << ", " >>)
         \o violations[n].instancePath \o << " " >> \o violations[n].message

\* C13: for a document that parses, validateJsonSchema returns a valid result
\* without error exactly when the validator reports no violation, and
\* otherwise an invalid result whose error text holds every violation, each as
\* "<instance-location> <message>", joined with ", " in the validator's order
C13_AllViolationsReported ==
    /\ pc = "validate" =>
          \A validate \in Validators \cup { v \in { fileValidate } : v # Null } :
              LET file == jsonFiles[idx]
                  r == validateJsonSchema(disk, cwd, file, validate)
                  violations == Violations(validate.rules, JSONParse(TextOf(file)).val,
                                           Len(validate.rules))
              IN  ReadsAndParses(file) =>
                      /\ r.file = file
                      /\ r.valid <=> violations = << >>
                      /\ IF r.valid THEN r.error = Null
                         ELSE r.error = Listed(violations, Len(violations))
    /\ (pc = "done" /\ globalValidate # Null) =>
          \A i \in 1 .. Len(results) :
              LET violations == Violations(globalValidate.rules,
                                           JSONParse(TextOf(jsonFiles[i])).val,
                                           Len(globalValidate.rules))
              IN  ReadsAndParses(jsonFiles[i]) =>
                      results[i] = IF violations = << >> THEN Valid(jsonFiles[i])
                                   ELSE Invalid(jsonFiles[i],
                                                Listed(violations, Len(violations)))

\* a run that recorded a document with two violations of its schema, the
\* missing name and the negative price, and a document with one
C13_Witness ==
    /\ pc = "done"
    /\ \E i, j \in 1 .. Len(results) :
          /\ TextOf(jsonFiles[i]) = TProduct
          /\ results[i] = Invalid(jsonFiles[i],
                << " ", "must have required property 'name'", ", ",
                   S, "price", " ", "must be >= 0" >>)
          /\ TextOf(jsonFiles[j]) = TUpUser
          /\ results[j] = Invalid(jsonFiles[j],
                << " ", "must have required property 'name'" >>)

\* the exclusion patterns in effect: those of the ignore input when it is
\* supplied, the four defaults when it is not
EffectiveIgnore == IF inputs.ignore # << >> THEN inputs.ignore ELSE DefaultIgnore

\* the folder that is searched
SearchPath == PathJoin(cwd, IF inputs.folder # << >> THEN inputs.folder ELSE << D >>)

\* C14: the exclusion patterns are those of the ignore input when it is
\* supplied and the four defaults only when it is not: the discovered files
\* are the *.json files under the folder that match no pattern in effect, so
\* a file under dist is discovered when ignore is supplied without a dist
\* pattern, and no discovered path matches a pattern in effect
C14_IgnoreInputReplacesDefaults ==
    pc # "start" =>
        /\ jsonFiles = Glob(disk, DiskListing, SearchPath, EffectiveIgnore)
        /\ \A i \in 1 .. Len(jsonFiles), k \in 1 .. Len(EffectiveIgnore) :
              ~IgnoreMatches(EffectiveIgnore[k],
                             Segments(SubSeq(jsonFiles[i], Len(SearchPath) + 2,
                                             Len(jsonFiles[i]))))

\* the folder is not on disk
FolderMissing == Entry(disk, SearchPath).kind = "absent"

\* no file under the folder has a name that ends in .json
NoJsonUnderFolder ==
    \A p \in DOMAIN disk :
        ~ /\ disk[p].kind = "file"
          /\ StartsWith(p, SearchPath \o << S >>)
          /\ EndsWith(p, << D, "json" >>)

\* C15: when the folder does not exist or holds no *.json file, findJsonFiles
\* returns the empty sequence without error, and run then emits one warning,
\* sets valid-files and invalid-files to 0, validates nothing and ends with
\* success status
C15_NoFilesIsSuccess ==
    /\ (pc # "start" /\ (FolderMissing \/ NoJsonUnderFolder)) => jsonFiles = << >>
    /\ (pc # "start" /\ jsonFiles = << >>) =>
          /\ pc = "done"
          /\ Len(log) = 1
          /\ log[1].level = "warning"
          /\ outputs = << << "valid-files", 0 >>, << "invalid-files", 0 >> >>
          /\ results = << >>
          /\ reads = << >>
          /\ trace = << >>
          /\ failed = << >>

\* a run over a folder that does not exist, with documents elsewhere on disk,
\* has ended
C15_Witness ==
    /\ pc = "done"
    /\ FolderMissing
    /\ Present(disk) # {}
    /\ jsonFiles = << >>
    /\ Len(log) = 1

\* a run over a folder that exists and holds no *.json file has ended
C15_WitnessEmptyFolder ==
    /\ pc = "done"
    /\ ~FolderMissing
    /\ NoJsonUnderFolder
    /\ jsonFiles = << >>

\* the position among the discovered files of the k-th file whose result is
\* invalid
InvalidAt(k) ==
    CHOOSE i \in 1 .. Len(results) :
        /\ ~results[i].valid
        /\ Cardinality({j \in 1 .. i : ~results[j].valid}) = k

\* the value of an output
Output(name) == (CHOOSE i \in 1 .. Len(outputs) : outputs[i][1] = name)

\* the core.error lines of the log
ErrorLog == SelectSeq(log, LAMBDA l : l.level = "error")

\* C16: in every run that reaches aggregation the results are an
\* order-preserving partition of the discovered files: each discovered file
\* has exactly one result, at its position; the counts of valid and invalid
\* files add up to the number of discovered files; and the invalid files are
\* reported in the order in which they were discovered
C16_ResultsPartitionDiscovered ==
    /\ (pc = "aggregate" \/ (pc = "done" /\ results # << >>)) =>
        /\ Len(results) = Len(jsonFiles)
        /\ \A i \in 1 .. Len(jsonFiles) : results[i].file = jsonFiles[i]
        /\ \A i, j \in 1 .. Len(jsonFiles) : jsonFiles[i] = jsonFiles[j] => i = j
    /\ (pc = "done" /\ results # << >>) =>
        /\ outputs[Output("valid-files")][2] = NumValid
        /\ outputs[Output("invalid-files")][2] = NumInvalid
        /\ NumValid + NumInvalid = Len(jsonFiles)
        /\ Len(ErrorLog) = IF NumInvalid > 0 THEN NumInvalid + 1 ELSE 0
        /\ \A k \in 1 .. NumInvalid :
              ErrorLog[k + 1].text =
                  << "  - " >> \o PathRelative(cwd, jsonFiles[InvalidAt(k)], cwd)
                  \o << ": " >> \o results[InvalidAt(k)].error

\* a run was aggregated with two invalid files and a valid one
C16_Witness ==
    /\ Aggregated
    /\ NumInvalid >= 2
    /\ NumValid >= 1
    /\ \E i, j \in 1 .. Len(results) : i < j /\ ~results[i].valid /\ results[j].valid

\* the document declares a local $schema whose file exists but is a
\* directory, cannot be read, does not parse or does not compile
DeclaresBrokenSchema(file) ==
    /\ DeclaresSchema(file)
    /\ ~StartsWith(TextOf(file).schema.s, HttpPrefix)
    /\ ~StartsWith(TextOf(file).schema.s, HttpsPrefix)
    /\ LET e == Entry(disk, PathResolve(<< PathDirname(file), TextOf(file).schema.s >>, cwd))
       IN  \/ e.kind = "dir"
           \/ e.kind = "file" /\ ~e.readable
           \/ e.kind = "file" /\ e.readable /\ e.text.syntax # "ok"
           \/ e.kind = "file" /\ e.readable /\ e.text.syntax = "ok" /\ ~e.text.compilable

\* the document is unreadable or malformed
Unparsable(file) == ~ReadsAndParses(file)

C17_WitnessViolation ==
    /\ pc = "done"
    /\ \E i, j \in 1 .. Len(results) :
          /\ i < j
          /\ TextOf(jsonFiles[i]) = TProduct
          /\ ~results[i].valid

\* a global schema is configured and run throws on it: its file cannot be
\* loaded, or what it holds does not compile
GlobalSchemaThrows ==
    \/ GlobalSchemaBroken
    \/ /\ inputs.schema # << >>
       /\ ~GlobalSchemaEntry.text.compilable

\* the promise of run is resolved: run has returned
Resolved == pc = "done"

\* how far run has come: every step of run takes it further, and the end
\* is no further than two steps for each discovered file and three more
Progress ==
    CASE pc = "start" -> 0
      [] pc = "prepare" -> 1
      [] pc = "resolve" -> 2 * idx
      [] pc = "validate" -> 2 * idx + 1
      [] pc = "aggregate" -> 2 * Len(jsonFiles) + 2
      [] pc = "done" -> 2 * Len(jsonFiles) + 3
      [] OTHER -> -1

SameOutcome(a, b) == a.ok = b.ok /\ (a.ok => a.val = b.val)

\* C19: during a run the content of each document is read from disk once, so
\* the choice of the schema and the verdict of the validation rest on the
\* same content, also when the file is written while the run is going on:
\* whatever reads of a document the run makes return the same content
C19_DecisionAndVerdictOnSameContent ==
    \A i, j \in 1 .. Len(reads) :
        reads[i].file = reads[j].file => SameOutcome(reads[i].outcome, reads[j].outcome)

\* C19, to the letter: no document is read twice
C19_ReadOnce ==
    \A i, j \in 1 .. Len(reads) : reads[i].file = reads[j].file => i = j

\* a document held no $schema when run chose to check it for syntax only and
\* violates the schema it declares when run validates it: it is reported valid
C19_StaleDecision ==
    /\ pc = "done"
    /\ \E i, j \in 1 .. Len(reads), k \in 1 .. Len(results) :
          /\ i < j
          /\ reads[i].file = reads[j].file
          /\ results[k].file = reads[i].file
          /\ reads[i].outcome.ok
          /\ reads[i].outcome.val = TPlain
          /\ reads[j].outcome.ok
          /\ reads[j].outcome.val = TUserBroken
          /\ disk[UserSchema] = File(SchemaText("ok", TRUE, UserSchemaRules))
          /\ results[k].valid

=============================================================================
